---- MODULE Spec2Model ----
(***************************************************************************)
(* A model of the LambdaMART training engine of rforests: the metric       *)
(* scorers (src/src/metric), the per-feature ThresholdMap, the             *)
(* TrainingSet / TrainingSample (src/src/train/dataset.rs), the histogram  *)
(* split search and the best-first regression tree learner and driver      *)
(* (src/src/train/lambdamart).                                             *)
(*                                                                         *)
(* Conventions of the model:                                               *)
(*  - an f64 `Value` is a fixed-point integer in units of 1/FX; a division *)
(*    truncates toward zero (FDiv) and 0/0 is the NaN value;               *)
(*  - labels are small integer grades, -MinLabel at the least, and a gain  *)
(*    is counted in units of 2^-MinLabel, so gain(l) = 2^l - 1 is an       *)
(*    integer number of units;                                             *)
(*  - Rust's 0-based indices (instance index, threshold index, rank,       *)
(*    node index) are 1-based here, because TLA+ sequences are;            *)
(*  - Option<T> is a sequence: <<>> is None, <<v>> is Some(v).             *)
(***************************************************************************)
EXTENDS Integers, Sequences, FiniteSets, TLC

VARIABLES
    tm_values,      \* ThresholdMap::new input: the feature value vector
    tm_max_bins,    \* ThresholdMap::new input: the bin budget
    tm,             \* Option<ThresholdMap>: the map built from them
    m_labels,       \* metric input: labels in predicted rank order
    m_k,            \* metric input: truncation level
    m_changes,      \* Option: result of NDCGScorer::swap_changes
    m_delta,        \* Option: result of DCGScorer::delta
    m_measure,      \* Option: <<DCG measure, NDCG measure>> of m_labels
    dataset,        \* Config.train: the DataSet (instances, threshold maps)
    config,         \* LambdaMART.config
    ensemble,       \* LambdaMART.ensemble: the trees pushed so far
    calls,          \* how many learn() calls were started on the instance
    pc,             \* the position inside learn(); "idle" outside of it
    it,             \* the loop variable i of learn()
    model_scores,   \* TrainingSet.model_scores
    lambdas,        \* TrainingSet.lambdas
    weights,        \* TrainingSet.weights
    nodes,          \* RegressionTree.nodes of the tree being fitted
    queue,          \* fit: the BinaryHeap<NodeData>
    leaves,         \* fit: the leaf counter
    leaf_output,    \* fit: the per-instance leaf output buffer
    popped,         \* fit: Option, the NodeData popped last
    split_result,   \* fit: what sample.split returned last
    train_score,    \* learn(): Option, the train metric computed last
    updates,        \* update_lambdas_weights calls made on the TrainingSet
    validate_scores, \* learn(): Option, ValidateSet.scores (None without a validate set)
    validate_score, \* learn(): Option, the validate metric computed last
    cli_args,       \* the values given on the command line of the lambdamart subcommand
    cli_param,      \* main(): Option, the LambdaMARTParameter parsed from cli_args
    cli_config,     \* main(): Option, the Config handed to LambdaMART::new
    h_tmap,         \* histogram input: the ThresholdMap of one feature
    h_targets,      \* histogram input: the target (lambda) of every instance
    h_indices,      \* histogram input: the instance indices of the sample
    h_min_leaf,     \* best_split input: min_leaf
    h_hist,         \* Option: the Histogram built by ThresholdMap::histogram
    h_split         \* Option: what Histogram::best_split returned

tmVars == <<tm_values, tm_max_bins, tm>>
metricVars == <<m_labels, m_k, m_changes, m_delta, m_measure>>
learnVars == <<dataset, config, ensemble, calls, pc, it, model_scores, lambdas,
               weights, nodes, queue, leaves, leaf_output, popped, split_result,
               train_score, updates, validate_scores, validate_score>>
cliVars == <<cli_args, cli_param, cli_config>>
histVars == <<h_tmap, h_targets, h_indices, h_min_leaf, h_hist, h_split>>
vars == <<tmVars, metricVars, learnVars, cliVars, histVars>>

(***************************************************************************)
(* Bounds of the model.                                                    *)
(***************************************************************************)
MaxLen == 4         \* longest value vector / label vector of the pure specs
MaxVal == 3         \* feature values are 0..MaxVal (times FX)
MaxBins == 4        \* largest bin budget
MaxLabel == 2       \* relevance grades are 0..MaxLabel
MinLabel == 1       \* labels given to a scorer are -MinLabel..MaxLabel
MaxK == 3           \* largest truncation level of the pure metric spec
NInst == 3          \* instances of the training data set
MaxQid == 2         \* query ids are 1..MaxQid
MaxGrade == 1       \* labels of the training data set are 0..MaxGrade
MaxFeatVal == 1     \* feature values of the training data set (times FX)
MaxTrees == 2       \* largest `trees` option
MaxLeaves == 3      \* largest `max_leaves` option
MaxMinLeaf == 2     \* largest `min_leaf_samples` option
MaxLearnCalls == 2  \* learn() calls on one LambdaMART instance
MaxEnsemble == 3    \* learn() is not called when it would grow the ensemble beyond this
MaxCli == 2         \* a flag is given a value in 1..MaxCli, or the value config() writes
MaxScore == 1       \* model scores given to init_model_scores: -MaxScore..MaxScore
MaxUpdates == 2     \* update_lambdas_weights calls on one TrainingSet
LambdaN == 4        \* instances of the TrainingSet of the lambda spec
MaxEarlyStop == 1   \* largest `early_stop` option
HistN == 3          \* instances behind the ThresholdMap of the histogram spec
HistMaxVal == 2     \* their feature values are 0..HistMaxVal (times FX)
HistBins == 3       \* largest bin budget of the histogram spec
MaxTarget == 1      \* their targets are -MaxTarget..MaxTarget (times FX)

NFeat == 2          \* features per instance
LearningRate == 100 \* --shrinkage 0.1
MetricK == 10       \* --metric-k 10

(***************************************************************************)
(* f64 arithmetic.                                                         *)
(***************************************************************************)
FX == 1000
F64_MAX == 1000000000
NaN == 0 - 2000000000
None == <<>>
Some(v) == <<v>>

Abs(x) == IF x < 0 THEN 0 - x ELSE x

\* a / b on fixed-point operands that carry the same scale: the quotient is a
\* plain ratio, returned in units of 1/FX.
FDiv(a, b) ==
    IF b = 0
    THEN IF a = 0 THEN NaN ELSE IF a > 0 THEN F64_MAX + 1 ELSE 0 - (F64_MAX + 1)
    ELSE LET q == (Abs(a) * FX) \div Abs(b)
         IN IF (a < 0) = (b < 0) THEN q ELSE 0 - q

\* a / n for a usize n cast to f64 (n > 0 wherever the code divides).
FDivN(a, n) ==
    LET q == Abs(a) \div n IN IF a < 0 THEN 0 - q ELSE q

\* a * b of two fixed-point values; NaN times anything is NaN.
FMul(a, b) ==
    IF a = NaN \/ b = NaN THEN NaN
    ELSE LET q == (Abs(a) * Abs(b)) \div FX
         IN IF (a < 0) = (b < 0) THEN q ELSE 0 - q

\* a / n for a count n cast to f64, which may be 0: 0/0 is NaN and x/0 an
\* infinity.
FDivCount(a, n) == IF n = 0 THEN FDiv(a, 0) ELSE FDivN(a, n)

\* a + b of f64: NaN when either is NaN.
FAdd(a, b) == IF a = NaN \/ b = NaN THEN NaN ELSE a + b

\* a > b of f64: false when either is NaN.
FGt(a, b) == a # NaN /\ b # NaN /\ a > b

Min(a, b) == IF a < b THEN a ELSE b
Max(a, b) == IF a > b THEN a ELSE b

RECURSIVE SumSeq(_)
SumSeq(s) == IF s = <<>> THEN 0 ELSE s[1] + SumSeq(Tail(s))

(***************************************************************************)
(* Sorting: slice::sort_by is a stable merge sort. SortByKey sorts a       *)
(* sequence of <<key, item>> pairs by ascending key, equal keys keeping    *)
(* their order; a descending comparator is an ascending one on -key.       *)
(***************************************************************************)
RECURSIVE InsertSorted(_, _)
InsertSorted(x, s) ==
    IF s = <<>> THEN <<x>>
    ELSE IF s[1][1] <= x[1] THEN <<s[1]>> \o InsertSorted(x, Tail(s))
    ELSE <<x>> \o s

RECURSIVE SortByKey(_)
SortByKey(s) ==
    IF s = <<>> THEN <<>>
    ELSE InsertSorted(s[Len(s)], SortByKey(SubSeq(s, 1, Len(s) - 1)))

(***************************************************************************)
(* ThresholdMap (src/src/train/dataset.rs).                                *)
(***************************************************************************)
\* ThresholdMap::thresholds
Thresholds(sorted_values, max_bins) ==
    LET n == Len(sorted_values)
        max == sorted_values[n]
        min == sorted_values[1]
        step == FDivN(max - min, max_bins)
        base == IF n > max_bins
                THEN [b \in 1..max_bins |-> min + (b - 1) * step]
                ELSE sorted_values
    IN Append(base, F64_MAX)

\* a variant of ScanValues that leaves a value equal to the threshold to the
\* next bin
RECURSIVE ScanValuesBelow(_, _, _, _, _)
ScanValuesBelow(indexed_values, threshold, threshold_index, map, value_pos) ==
    IF value_pos > Len(indexed_values) \/ indexed_values[value_pos][2] >= threshold
    THEN <<map, value_pos>>
    ELSE ScanValuesBelow(indexed_values, threshold, threshold_index,
                         [map EXCEPT ![indexed_values[value_pos][1]] = threshold_index],
                         value_pos + 1)

\* the inner loop of ThresholdMap::new for one threshold: consume the sorted
\* (index, value) pairs from value_pos while value <= threshold.
RECURSIVE ScanValues(_, _, _, _, _)
ScanValues(indexed_values, threshold, threshold_index, map, value_pos) ==
    IF value_pos > Len(indexed_values) \/ indexed_values[value_pos][2] > threshold
    THEN <<map, value_pos>>
    ELSE ScanValues(indexed_values, threshold, threshold_index,
                    [map EXCEPT ![indexed_values[value_pos][1]] = threshold_index],
                    value_pos + 1)

\* the outer loop of ThresholdMap::new over the thresholds.
RECURSIVE ScanThresholds(_, _, _, _, _)
ScanThresholds(indexed_values, thresholds, threshold_index, map, value_pos) ==
    IF threshold_index > Len(thresholds) THEN map
    ELSE LET r == ScanValues(indexed_values, thresholds[threshold_index],
                             threshold_index, map, value_pos)
         IN ScanThresholds(indexed_values, thresholds, threshold_index + 1, r[1], r[2])

\* ThresholdMap::new. An unassigned map entry keeps the initial index (0 in the
\* code, the first threshold; 1 here).
ThresholdMapNew(values, max_bins) ==
    LET nvalues == Len(values)
        by_value == SortByKey([i \in 1..nvalues |-> <<values[i], i>>])
        indexed_values == [i \in 1..nvalues |-> <<by_value[i][2], by_value[i][1]>>]
        sorted_values == [i \in 1..nvalues |-> indexed_values[i][2]]
        thresholds == Thresholds(sorted_values, max_bins)
    IN [thresholds |-> thresholds,
        map |-> ScanThresholds(indexed_values, thresholds, 1,
                               [i \in 1..nvalues |-> 1], 1)]

(***************************************************************************)
(* Metric scorers (src/src/metric).                                        *)
(***************************************************************************)
\* DISCOUNT: 1 / log2(i + 2) for i = 0, 1, ..., in units of 1/FX.
DISCOUNT == <<1000, 631, 500, 431, 387, 356, 333, 315, 301, 289, 279, 270>>

\* discount(i) of the 0-based rank i.
Discount(i) == DISCOUNT[i + 1]

RECURSIVE Exp2(_)
Exp2(n) == IF n = 0 THEN 1 ELSE 2 * Exp2(n - 1)

\* gain(score) = 2^score - 1, in units of 2^-MinLabel: the gain of every label
\* from -MinLabel on is an integer, and every DCG carries the same unit
GainUnit == Exp2(MinLabel)
Gain(score) == Exp2(score + MinLabel) - GainUnit

\* DCGScorer::score (the `measure` of the DCG scorer)
DCGScore(labels, truncation_level) ==
    LET n == Min(Len(labels), truncation_level)
    IN SumSeq([p \in 1..n |-> Gain(labels[p]) * Discount(p - 1)])

\* the loops of DCGScorer::delta from the pair (i, j) of 1-based ranks on:
\* for i in 0..nlabels { for j in i + 1..nlabels { ... } }
RECURSIVE DCGDeltaLoop(_, _, _, _)
DCGDeltaLoop(labels, delta, i, j) ==
    IF i > Len(labels) THEN delta
    ELSE IF j > Len(labels) THEN DCGDeltaLoop(labels, delta, i + 1, i + 2)
    ELSE LET d == (Gain(labels[i]) - Gain(labels[j])) *
                  (Discount(i - 1) - Discount(j - 1))
         IN DCGDeltaLoop(labels, [delta EXCEPT ![i][j] = d, ![j][i] = d], i, j + 1)

\* DCGScorer::delta
DCGDelta(labels) ==
    LET nlabels == Len(labels)
    IN DCGDeltaLoop(labels, [p \in 1..nlabels |-> [q \in 1..nlabels |-> 0]], 1, 2)

\* a variant of MaxDCG that sorts the labels in ascending order
MaxDCGAscending(labels, truncation_level) ==
    LET sorted == SortByKey([p \in 1..Len(labels) |-> <<labels[p], labels[p]>>])
        clone == [p \in 1..Len(labels) |-> sorted[p][2]]
    IN DCGScore(clone, truncation_level)

\* NDCGScorer::max_dcg
MaxDCG(labels, truncation_level) ==
    LET sorted == SortByKey([p \in 1..Len(labels) |-> <<0 - labels[p], labels[p]>>])
        clone == [p \in 1..Len(labels) |-> sorted[p][2]]
    IN DCGScore(clone, truncation_level)

\* a variant of NDCGMeasure without the test of the ideal DCG
NDCGMeasureUnguarded(labels, truncation_level) ==
    FDiv(DCGScore(labels, truncation_level), MaxDCG(labels, truncation_level))

\* NDCGScorer::measure
NDCGMeasure(labels, truncation_level) ==
    LET max == MaxDCG(labels, truncation_level)
    IN IF Abs(max) = 0 THEN 0
       ELSE FDiv(DCGScore(labels, truncation_level), MaxDCG(labels, truncation_level))

\* a variant of SwapChangesLoop that does not mirror the entry to [j][i]
RECURSIVE SwapChangesLoopNoMirror(_, _, _, _, _, _)
SwapChangesLoopNoMirror(labels, ideal_dcg, size, changes, i, j) ==
    IF i > size THEN changes
    ELSE IF j > Len(labels)
    THEN SwapChangesLoopNoMirror(labels, ideal_dcg, size, changes, i + 1, i + 2)
    ELSE LET c == FDiv((Gain(labels[i]) - Gain(labels[j])) *
                       (Discount(i - 1) - Discount(j - 1)), ideal_dcg)
         IN SwapChangesLoopNoMirror(labels, ideal_dcg, size,
                                    [changes EXCEPT ![i][j] = c], i, j + 1)

\* a variant of SwapChangesLoop that stores the magnitude of the change
RECURSIVE SwapChangesLoopAbs(_, _, _, _, _, _)
SwapChangesLoopAbs(labels, ideal_dcg, size, changes, i, j) ==
    IF i > size THEN changes
    ELSE IF j > Len(labels)
    THEN SwapChangesLoopAbs(labels, ideal_dcg, size, changes, i + 1, i + 2)
    ELSE LET c == FDiv(Abs((Gain(labels[i]) - Gain(labels[j])) *
                           (Discount(i - 1) - Discount(j - 1))), ideal_dcg)
         IN SwapChangesLoopAbs(labels, ideal_dcg, size,
                               [changes EXCEPT ![i][j] = c, ![j][i] = c], i, j + 1)

\* the loops of NDCGScorer::swap_changes from the pair (i, j) of 1-based ranks
\* on: for i in 0..size { for j in i + 1..nlabels { ... } }
RECURSIVE SwapChangesLoop(_, _, _, _, _, _)
SwapChangesLoop(labels, ideal_dcg, size, changes, i, j) ==
    IF i > size THEN changes
    ELSE IF j > Len(labels)
    THEN SwapChangesLoop(labels, ideal_dcg, size, changes, i + 1, i + 2)
    ELSE LET c == FDiv((Gain(labels[i]) - Gain(labels[j])) *
                       (Discount(i - 1) - Discount(j - 1)), ideal_dcg)
         IN SwapChangesLoop(labels, ideal_dcg, size,
                            [changes EXCEPT ![i][j] = c, ![j][i] = c], i, j + 1)

\* NDCGScorer::swap_changes
SwapChanges(labels, truncation_level) ==
    LET nlabels == Len(labels)
        ideal_dcg == MaxDCG(labels, truncation_level)
        size == Min(truncation_level, nlabels)
    IN SwapChangesLoop(labels, ideal_dcg, size,
                       [p \in 1..nlabels |-> [q \in 1..nlabels |-> 0]], 1, 2)

(***************************************************************************)
(* Instance and DataSet (src/src/train/dataset.rs).                        *)
(***************************************************************************)
\* Instance::value
InstanceValue(instance, id) ==
    IF id <= Len(instance.values) THEN instance.values[id] ELSE 0

RECURSIVE MaxFeatureId(_)
MaxFeatureId(instances) ==
    IF instances = <<>> THEN 0
    ELSE LET rest == MaxFeatureId(Tail(instances))
             here == Len(instances[1].values)
         IN IF here > rest THEN here ELSE rest

\* DataSet::new(max_bins) followed by from_iter / load: the instances, the
\* feature count and, by generate_thresholds, one ThresholdMap per feature.
DataSetLoad(data, max_bins) ==
    LET nfeatures == MaxFeatureId(data)
    IN [nfeatures |-> nfeatures,
        max_bins |-> max_bins,
        instances |-> data,
        threshold_maps |->
            [fid \in 1..nfeatures |->
                ThresholdMapNew([n \in 1..Len(data) |-> InstanceValue(data[n], fid)],
                                max_bins)]]

\* a variant of TakeWhileQid with filter in place of take_while
RECURSIVE TakeWhileQidFilter(_, _, _)
TakeWhileQidFilter(instances, index, qid) ==
    IF index > Len(instances) THEN 0
    ELSE (IF instances[index].qid = qid THEN 1 ELSE 0)
             + TakeWhileQidFilter(instances, index + 1, qid)

\* the take_while of QueryIter::next: how many instances from index on carry qid
RECURSIVE TakeWhileQid(_, _, _)
TakeWhileQid(instances, index, qid) ==
    IF index > Len(instances) \/ instances[index].qid # qid THEN 0
    ELSE 1 + TakeWhileQid(instances, index + 1, qid)

\* QueryIter::next repeated until None: the (qid, indices) groups from index on
RECURSIVE QueryIter(_, _)
QueryIter(instances, index) ==
    IF index > Len(instances) THEN <<>>
    ELSE LET qid == instances[index].qid
             len == TakeWhileQid(instances, index, qid)
             queries == [o \in 1..len |-> index + o - 1]
         IN <<<<qid, queries>>>> \o QueryIter(instances, index + len)

(***************************************************************************)
(* TrainingSet (src/src/train/dataset.rs).                                 *)
(***************************************************************************)
\* e^k for k = -4 .. 4, in units of 1/FX
EXP_TABLE == <<18, 50, 135, 368, 1000, 2718, 7389, 20086, 54598>>

\* f64::exp, interpolated between the integer points of EXP_TABLE and clamped
\* outside of [-4, 4].
Exp(x) ==
    IF x <= 0 - 4 * FX THEN EXP_TABLE[1]
    ELSE IF x >= 4 * FX THEN EXP_TABLE[9]
    ELSE LET k == x \div FX
             frac == x - k * FX
         IN EXP_TABLE[k + 5] + ((EXP_TABLE[k + 6] - EXP_TABLE[k + 5]) * frac) \div FX

\* rho = 1.0 / (1.0 + (score1 - score2).exp())
Rho(score1, score2) == FDiv(FX, FX + Exp(score1 - score2))

\* a variant of PairLoop that adds the lambda of a pair to its higher-labelled
\* instance only
RECURSIVE PairLoopOneSided(_, _, _, _, _, _, _)
PairLoopOneSided(instances, scores, query, metric_delta, lw, r1, r2) ==
    IF r1 > Len(query) THEN lw
    ELSE IF r2 > Len(query)
    THEN PairLoopOneSided(instances, scores, query, metric_delta, lw, r1 + 1, 1)
    ELSE LET index1 == query[r1]
             index2 == query[r2]
         IN IF instances[index1].label <= instances[index2].label
            THEN PairLoopOneSided(instances, scores, query, metric_delta, lw, r1, r2 + 1)
            ELSE LET metric_delta_value == Abs(metric_delta[r1][r2])
                     rho == Rho(scores[index1], scores[index2])
                     lambda == FMul(metric_delta_value, rho)
                     weight == FMul(FMul(rho, FX - rho), metric_delta_value)
                     lambdas1 == [lw[1] EXCEPT ![index1] = @ + lambda]
                     weights1 == [lw[2] EXCEPT ![index1] = @ + weight,
                                               ![index2] = @ + weight]
                 IN PairLoopOneSided(instances, scores, query, metric_delta,
                             <<lambdas1, weights1>>, r1, r2 + 1)

\* the two nested loops of update_lambda_weight_by_query over the ranks
\* (metric_index1, metric_index2), from the pair (r1, r2) on; lw is
\* <<lambdas, weights>>.
RECURSIVE PairLoop(_, _, _, _, _, _, _)
PairLoop(instances, scores, query, metric_delta, lw, r1, r2) ==
    IF r1 > Len(query) THEN lw
    ELSE IF r2 > Len(query)
    THEN PairLoop(instances, scores, query, metric_delta, lw, r1 + 1, 1)
    ELSE LET index1 == query[r1]
             index2 == query[r2]
         IN IF instances[index1].label <= instances[index2].label
            THEN PairLoop(instances, scores, query, metric_delta, lw, r1, r2 + 1)
            ELSE LET metric_delta_value == Abs(metric_delta[r1][r2])
                     rho == Rho(scores[index1], scores[index2])
                     lambda == FMul(metric_delta_value, rho)
                     weight == FMul(FMul(rho, FX - rho), metric_delta_value)
                     lambdas1 == [lw[1] EXCEPT ![index1] = @ + lambda,
                                               ![index2] = @ - lambda]
                     weights1 == [lw[2] EXCEPT ![index1] = @ + weight,
                                               ![index2] = @ + weight]
                 IN PairLoop(instances, scores, query, metric_delta,
                             <<lambdas1, weights1>>, r1, r2 + 1)

\* the indices of a query sorted by model score, descending (stable)
RankByScore(scores, query) ==
    LET sorted == SortByKey([r \in 1..Len(query) |-> <<0 - scores[query[r]], query[r]>>])
    IN [r \in 1..Len(query) |-> sorted[r][2]]

\* a variant of UpdateLambdaWeightByQuery that pairs the instances of the
\* whole data set
UpdateLambdaWeightByDataSet(instances, scores, lw, query, truncation_level) ==
    LET ranked == RankByScore(scores, [n \in 1..Len(instances) |-> n])
        labels_sorted_by_scores == [r \in 1..Len(ranked) |-> instances[ranked[r]].label]
        metric_delta == SwapChanges(labels_sorted_by_scores, truncation_level)
    IN PairLoop(instances, scores, ranked, metric_delta, lw, 1, 1)

\* TrainingSet::update_lambda_weight_by_query
UpdateLambdaWeightByQuery(instances, scores, lw, query, truncation_level) ==
    LET ranked == RankByScore(scores, query)
        labels_sorted_by_scores == [r \in 1..Len(ranked) |-> instances[ranked[r]].label]
        metric_delta == SwapChanges(labels_sorted_by_scores, truncation_level)
    IN PairLoop(instances, scores, ranked, metric_delta, lw, 1, 1)

RECURSIVE UpdateLambdasWeightsLoop(_, _, _, _, _)
UpdateLambdasWeightsLoop(instances, scores, lw, queries, truncation_level) ==
    IF queries = <<>> THEN lw
    ELSE UpdateLambdasWeightsLoop(
             instances, scores,
             UpdateLambdaWeightByQuery(instances, scores, lw, queries[1][2],
                                       truncation_level),
             Tail(queries), truncation_level)

\* TrainingSet::update_lambdas_weights: <<lambdas, weights>> after the call
UpdateLambdasWeights(instances, scores, lw, truncation_level) ==
    UpdateLambdasWeightsLoop(instances, scores, lw, QueryIter(instances, 1),
                             truncation_level)

RECURSIVE EvaluateLoop(_, _, _, _)
EvaluateLoop(instances, scores, queries, truncation_level) ==
    IF queries = <<>> THEN 0
    ELSE LET indices == RankByScore(scores, queries[1][2])
             labels == [r \in 1..Len(indices) |-> instances[indices[r]].label]
         IN NDCGMeasure(labels, truncation_level) +
            EvaluateLoop(instances, scores, Tail(queries), truncation_level)

\* TrainingSet::evaluate
TrainingEvaluate(instances, scores, truncation_level) ==
    LET queries == QueryIter(instances, 1)
    IN FDivN(EvaluateLoop(instances, scores, queries, truncation_level), Len(queries))

(***************************************************************************)
(* Histogram (ThresholdMap::histogram, Histogram::best_split).             *)
(***************************************************************************)
\* the first loop of ThresholdMap::histogram: add every (id, target) to its bin
RECURSIVE HistogramFill(_, _, _, _)
HistogramFill(map, targets, indices, hist) ==
    IF indices = <<>> THEN hist
    ELSE LET id == indices[1]
             threshold_index == map[id]
         IN HistogramFill(map, targets, Tail(indices),
                [hist EXCEPT ![threshold_index].acc_count = @ + 1,
                             ![threshold_index].acc_sum = @ + targets[id]])

\* a variant of HistogramAccumulate that accumulates the counts only
RECURSIVE HistogramAccumulateCounts(_, _)
HistogramAccumulateCounts(hist, b) ==
    IF b > Len(hist) THEN hist
    ELSE HistogramAccumulateCounts(
             [hist EXCEPT ![b].acc_count = @ + hist[b - 1].acc_count], b + 1)

\* the second loop of ThresholdMap::histogram: the prefix sums
RECURSIVE HistogramAccumulate(_, _)
HistogramAccumulate(hist, b) ==
    IF b > Len(hist) THEN hist
    ELSE HistogramAccumulate(
             [hist EXCEPT ![b].acc_count = @ + hist[b - 1].acc_count,
                          ![b].acc_sum = @ + hist[b - 1].acc_sum], b + 1)

\* ThresholdMap::histogram over the instances `indices` with targets[id]
ThresholdMapHistogram(threshold_map, targets, indices) ==
    LET hist == [b \in 1..Len(threshold_map.thresholds) |->
                    [threashold |-> threshold_map.thresholds[b],
                     acc_count |-> 0, acc_sum |-> 0]]
    IN HistogramAccumulate(HistogramFill(threshold_map.map, targets, indices, hist), 2)

\* S of a bin: sum_left^2 / count_left + sum_right^2 / count_right
SValue(sum_left, count_left, sum_right, count_right) ==
    FAdd(FDivCount(sum_left * sum_left, count_left),
         FDivCount(sum_right * sum_right, count_right))

\* a variant of BestSplitLoop that skips a bin only when both sides are
\* smaller than min_leaf
RECURSIVE BestSplitLoopEitherSide(_, _, _, _)
BestSplitLoopEitherSide(bins, min_leaf, index, split) ==
    IF index > Len(bins) THEN split
    ELSE LET sum == bins[Len(bins)].acc_sum
             count == bins[Len(bins)].acc_count
             count_left == bins[index].acc_count
             count_right == count - count_left
             sum_left == bins[index].acc_sum
             sum_right == sum - sum_left
         IN IF count_left < min_leaf /\ count_right < min_leaf
            THEN BestSplitLoopEitherSide(bins, min_leaf, index + 1, split)
            ELSE LET s_value == SValue(sum_left, Max(count_left, 1),
                                       sum_right, Max(count_right, 1))
                 IN IF split # None /\ ~FGt(s_value, split[1][2])
                    THEN BestSplitLoopEitherSide(bins, min_leaf, index + 1, split)
                    ELSE BestSplitLoopEitherSide(bins, min_leaf, index + 1,
                                       Some(<<bins[index].threashold, s_value>>))

\* a variant of BestSplitLoop that replaces the stored split on s_value >= old_s
RECURSIVE BestSplitLoopLast(_, _, _, _)
BestSplitLoopLast(bins, min_leaf, index, split) ==
    IF index > Len(bins) THEN split
    ELSE LET sum == bins[Len(bins)].acc_sum
             count == bins[Len(bins)].acc_count
             count_left == bins[index].acc_count
             count_right == count - count_left
             sum_left == bins[index].acc_sum
             sum_right == sum - sum_left
         IN IF count_left < min_leaf \/ count_right < min_leaf
            THEN BestSplitLoopLast(bins, min_leaf, index + 1, split)
            ELSE LET s_value == SValue(sum_left, count_left, sum_right, count_right)
                 IN IF split # None /\ FGt(split[1][2], s_value)
                    THEN BestSplitLoopLast(bins, min_leaf, index + 1, split)
                    ELSE BestSplitLoopLast(bins, min_leaf, index + 1,
                                       Some(<<bins[index].threashold, s_value>>))

\* the loop of Histogram::best_split from bin `index` on
RECURSIVE BestSplitLoop(_, _, _, _)
BestSplitLoop(bins, min_leaf, index, split) ==
    IF index > Len(bins) THEN split
    ELSE LET sum == bins[Len(bins)].acc_sum
             count == bins[Len(bins)].acc_count
             count_left == bins[index].acc_count
             count_right == count - count_left
             sum_left == bins[index].acc_sum
             sum_right == sum - sum_left
         IN IF count_left < min_leaf \/ count_right < min_leaf
            THEN BestSplitLoop(bins, min_leaf, index + 1, split)
            ELSE LET s_value == SValue(sum_left, count_left, sum_right, count_right)
                 IN IF split # None /\ ~FGt(s_value, split[1][2])
                    THEN BestSplitLoop(bins, min_leaf, index + 1, split)
                    ELSE BestSplitLoop(bins, min_leaf, index + 1,
                                       Some(<<bins[index].threashold, s_value>>))

\* Histogram::best_split: None or Some(<<threshold, s>>)
BestSplit(bins, min_leaf) == BestSplitLoop(bins, min_leaf, 1, None)

(***************************************************************************)
(* TrainingSample (src/src/train/dataset.rs).                              *)
(***************************************************************************)
\* TrainingSample::feature_histogram
FeatureHistogram(ds, targets, fid, indices) ==
    ThresholdMapHistogram(ds.threshold_maps[fid], targets, indices)

\* the first loop of TrainingSample::split: the (fid, threshold, s) of every
\* feature that has a best split, in feature order
RECURSIVE FeatureSplits(_, _, _, _, _)
FeatureSplits(ds, targets, indices, min_leaf_count, fid) ==
    IF fid > ds.nfeatures THEN <<>>
    ELSE LET split == BestSplit(FeatureHistogram(ds, targets, fid, indices),
                                min_leaf_count)
             rest == FeatureSplits(ds, targets, indices, min_leaf_count, fid + 1)
         IN IF split = None THEN rest
            ELSE <<<<fid, split[1][1], split[1][2]>>>> \o rest

\* a variant of MaxByS that keeps the first of several maximal elements
RECURSIVE MaxBySFirst(_, _)
MaxBySFirst(best, splits) ==
    IF splits = <<>> THEN best
    ELSE MaxBySFirst(IF best[3] >= splits[1][3] THEN best ELSE splits[1], Tail(splits))

\* Iterator::max_by on the s value: of several equally maximal elements the
\* last one is returned.
RECURSIVE MaxByS(_, _)
MaxByS(best, splits) ==
    IF splits = <<>> THEN best
    ELSE MaxByS(IF best[3] > splits[1][3] THEN best ELSE splits[1], Tail(splits))

\* a variant of Partition that sends a value equal to the threshold right
RECURSIVE PartitionBelow(_, _, _, _)
PartitionBelow(ds, indices, fid, threshold) ==
    IF indices = <<>> THEN <<<<>>, <<>>>>
    ELSE LET rest == PartitionBelow(ds, Tail(indices), fid, threshold)
         IN IF InstanceValue(ds.instances[indices[1]], fid) < threshold
            THEN <<<<indices[1]>> \o rest[1], rest[2]>>
            ELSE <<rest[1], <<indices[1]>> \o rest[2]>>

\* a variant of Partition that sends a value equal to the threshold to both
\* sides
RECURSIVE PartitionOverlapping(_, _, _, _)
PartitionOverlapping(ds, indices, fid, threshold) ==
    IF indices = <<>> THEN <<<<>>, <<>>>>
    ELSE LET rest == PartitionOverlapping(ds, Tail(indices), fid, threshold)
             value == InstanceValue(ds.instances[indices[1]], fid)
         IN <<IF value <= threshold THEN <<indices[1]>> \o rest[1] ELSE rest[1],
              IF value >= threshold THEN <<indices[1]>> \o rest[2] ELSE rest[2]>>

\* the partition loop of TrainingSample::split
RECURSIVE Partition(_, _, _, _)
Partition(ds, indices, fid, threshold) ==
    IF indices = <<>> THEN <<<<>>, <<>>>>
    ELSE LET rest == Partition(ds, Tail(indices), fid, threshold)
         IN IF InstanceValue(ds.instances[indices[1]], fid) <= threshold
            THEN <<<<indices[1]>> \o rest[1], rest[2]>>
            ELSE <<rest[1], <<indices[1]>> \o rest[2]>>

\* TrainingSample::split
SampleSplit(ds, targets, indices, min_leaf_count) ==
    LET splits == FeatureSplits(ds, targets, indices, min_leaf_count, 1)
    IN IF splits = <<>> THEN None
       ELSE LET best == MaxByS(splits[1], Tail(splits))
                parts == Partition(ds, indices, best[1], best[2])
            IN Some([fid |-> best[1], threshold |-> best[2], s |-> best[3],
                     left |-> parts[1], right |-> parts[2]])

\* a variant of NewtonOutput that divides without the test of the weight sum
NewtonOutputUnguarded(lambda, weight, indices) ==
    LET lambda_sum == SumSeq([p \in 1..Len(indices) |-> lambda[indices[p]]])
        weight_sum == SumSeq([p \in 1..Len(indices) |-> weight[indices[p]]])
    IN FDiv(lambda_sum, weight_sum)

\* TrainingSample::newton_output
NewtonOutput(lambda, weight, indices) ==
    LET lambda_sum == SumSeq([p \in 1..Len(indices) |-> lambda[indices[p]]])
        weight_sum == SumSeq([p \in 1..Len(indices) |-> weight[indices[p]]])
    IN IF weight_sum = 0 THEN 0 ELSE FDiv(lambda_sum, weight_sum)

\* TrainingSample::variance: the sum of the squared lambdas minus the squared
\* sum of the lambdas over the count
Variance(lambda, indices) ==
    LET sum == SumSeq([p \in 1..Len(indices) |-> lambda[indices[p]]])
        squared_sum == SumSeq([p \in 1..Len(indices) |->
                                  lambda[indices[p]] * lambda[indices[p]]])
    IN squared_sum - FDivN(sum * sum, Len(indices))

\* TrainingSample::update_output: add delta to the buffer at the sample's indices
UpdateOutput(buffer, indices, delta) ==
    [n \in 1..Len(buffer) |->
        IF \E p \in 1..Len(indices) : indices[p] = n THEN buffer[n] + delta
        ELSE buffer[n]]

\* TrainingSet::update_result: add the leaf output buffer to the model scores
UpdateResult(scores, buffer) ==
    [n \in 1..Len(scores) |-> scores[n] + buffer[n]]

(***************************************************************************)
(* RegressionTree and Ensemble (src/src/train/lambdamart/                  *)
(* regression_tree.rs).                                                    *)
(***************************************************************************)
\* Node::new
NodeNew(parent) ==
    [fid |-> None, threshold |-> None, output |-> None,
     parent |-> parent, left |-> None, right |-> None]

\* a variant of SplitNode that also stores an output in the split node
SplitNodeWithOutput(tree_nodes, index, fid, threshold) ==
    LET left_index == Len(tree_nodes) + 1
        right_index == Len(tree_nodes) + 2
        pushed == tree_nodes \o <<NodeNew(Some(index)), NodeNew(Some(index))>>
    IN [pushed EXCEPT ![index] = [@ EXCEPT !.fid = Some(fid),
                                          !.threshold = Some(threshold),
                                          !.left = Some(left_index),
                                          !.right = Some(right_index),
                                          !.output = Some(0)]]

\* RegressionTree::split_node
SplitNode(tree_nodes, index, fid, threshold) ==
    LET left_index == Len(tree_nodes) + 1
        right_index == Len(tree_nodes) + 2
        pushed == tree_nodes \o <<NodeNew(Some(index)), NodeNew(Some(index))>>
    IN [pushed EXCEPT ![index] = [@ EXCEPT !.fid = Some(fid),
                                          !.threshold = Some(threshold),
                                          !.left = Some(left_index),
                                          !.right = Some(right_index)]]

\* RegressionTree::set_leaf_node
SetLeafNode(tree_nodes, index, output) ==
    [tree_nodes EXCEPT ![index] = [@ EXCEPT !.output = Some(output)]]

\* the walk of Evaluate for RegressionTree from node n to a leaf's output
RECURSIVE Walk(_, _, _)
Walk(tree_nodes, n, instance) ==
    LET node == tree_nodes[n]
    IN IF node.output # None THEN node.output[1]
       ELSE IF InstanceValue(instance, node.fid[1]) <= node.threshold[1]
       THEN Walk(tree_nodes, node.left[1], instance)
       ELSE Walk(tree_nodes, node.right[1], instance)

\* Evaluate for RegressionTree
TreeEvaluate(tree, instance) ==
    FMul(Walk(tree.nodes, 1, instance), tree.learning_rate)

\* Evaluate for Ensemble
RECURSIVE EnsembleEvaluate(_, _)
EnsembleEvaluate(trees, instance) ==
    IF trees = <<>> THEN 0
    ELSE EnsembleEvaluate(SubSeq(trees, 1, Len(trees) - 1), instance) +
         TreeEvaluate(trees[Len(trees)], instance)

(***************************************************************************)
(* ValidateSet (src/src/train/lambdamart/validate_set.rs).                 *)
(***************************************************************************)
\* ValidateSet::update
ValidateUpdate(scores, instances, evaluator) ==
    [n \in 1..Len(scores) |-> scores[n] + TreeEvaluate(evaluator, instances[n])]

\* ValidateSet::measure: the mean over the queries of the measure of the
\* labels ranked by descending score
ValidateMeasure(instances, scores, truncation_level) ==
    LET queries == QueryIter(instances, 1)
    IN FDivN(EvaluateLoop(instances, scores, queries, truncation_level), Len(queries))

(***************************************************************************)
(* SpecTM: ThresholdMap::new applied to every bounded input.               *)
(***************************************************************************)
SeqsUpTo(S, n) == UNION {[1..l -> S] : l \in 0..n}

Values == {v * FX : v \in 0..MaxVal}

TMIdle ==
    /\ tm_values = <<>> /\ tm_max_bins = 1 /\ tm = None

CliIdle ==
    /\ cli_args = <<>> /\ cli_param = None /\ cli_config = None

HistIdle ==
    /\ h_tmap = <<>> /\ h_targets = <<>> /\ h_indices = <<>> /\ h_min_leaf = 1
    /\ h_hist = None /\ h_split = None

MetricIdle ==
    /\ m_labels = <<>> /\ m_k = 0 /\ m_changes = None /\ m_delta = None
    /\ m_measure = None

LearnUnused ==
    /\ dataset = <<>> /\ config = <<>>
    /\ ensemble = <<>> /\ calls = 0 /\ pc = "idle" /\ it = 0
    /\ model_scores = <<>> /\ lambdas = <<>> /\ weights = <<>>
    /\ nodes = <<>> /\ queue = {} /\ leaves = 0 /\ leaf_output = <<>>
    /\ popped = None /\ split_result = None /\ train_score = None
    /\ updates = 0
    /\ validate_scores = None /\ validate_score = None

InitTM ==
    /\ LearnUnused
    /\ tm_values \in SeqsUpTo(Values, MaxLen)
    /\ tm_max_bins \in 0..MaxBins
    /\ tm = None
    /\ MetricIdle
    /\ CliIdle
    /\ HistIdle

\* ThresholdMap::new(values, max_bins)
NewThresholdMap ==
    /\ tm = None
    /\ tm' = Some(ThresholdMapNew(tm_values, tm_max_bins))
    /\ UNCHANGED <<tm_values, tm_max_bins, metricVars, learnVars, cliVars,
                   histVars>>

NextTM == NewThresholdMap

SpecTM == InitTM /\ [][NextTM]_vars

(***************************************************************************)
(* SpecHist: ThresholdMap::histogram fed any subset of the instances of a  *)
(* ThresholdMap, then Histogram::best_split on the result with any         *)
(* min_leaf.                                                               *)
(***************************************************************************)
\* the ascending index vectors over 1..n
Subsamples(n) ==
    {sq \in SeqsUpTo(1..n, n) : \A p \in 1..(Len(sq) - 1) : sq[p] < sq[p + 1]}

InitHist ==
    /\ LearnUnused
    /\ TMIdle
    /\ MetricIdle
    /\ CliIdle
    /\ \E values \in [1..HistN -> {v * FX : v \in 0..HistMaxVal}],
          max_bins \in 1..HistBins :
              h_tmap = ThresholdMapNew(values, max_bins)
    /\ h_targets \in [1..HistN -> {t * FX : t \in (0 - MaxTarget)..MaxTarget}]
    /\ h_indices \in Subsamples(HistN)
    /\ h_min_leaf \in 0..MaxMinLeaf
    /\ h_hist = None
    /\ h_split = None

\* self.histogram(iter) over the sample's (id, value, target) triples
CallHistogram ==
    /\ h_hist = None
    /\ h_hist' = Some(ThresholdMapHistogram(h_tmap, h_targets, h_indices))
    /\ UNCHANGED <<h_tmap, h_targets, h_indices, h_min_leaf, h_split,
                   tmVars, metricVars, learnVars, cliVars>>

\* histogram.best_split(min_leaf)
CallBestSplit ==
    /\ h_hist # None
    /\ h_split = None
    /\ h_split' = Some(BestSplit(h_hist[1], h_min_leaf))
    /\ UNCHANGED <<h_tmap, h_targets, h_indices, h_min_leaf, h_hist,
                   tmVars, metricVars, learnVars, cliVars>>

NextHist == CallHistogram \/ CallBestSplit

SpecHist == InitHist /\ [][NextHist]_vars

(***************************************************************************)
(* SpecMetric: the scorers applied to every bounded label vector.          *)
(***************************************************************************)
InitMetric ==
    /\ LearnUnused
    /\ m_labels \in SeqsUpTo((0 - MinLabel)..MaxLabel, MaxLen)
    /\ m_k \in 0..MaxK
    /\ m_changes = None
    /\ m_delta = None
    /\ m_measure = None
    /\ TMIdle
    /\ CliIdle
    /\ HistIdle

\* NDCGScorer::new(k).swap_changes(labels)
CallSwapChanges ==
    /\ m_changes = None
    /\ m_changes' = Some(SwapChanges(m_labels, m_k))
    /\ UNCHANGED <<m_labels, m_k, m_delta, m_measure, tmVars, learnVars, cliVars,
                   histVars>>

\* DCGScorer::new(k).delta(labels)
CallDelta ==
    /\ m_delta = None
    /\ m_delta' = Some(DCGDelta(m_labels))
    /\ UNCHANGED <<m_labels, m_k, m_changes, m_measure, tmVars, learnVars, cliVars,
                   histVars>>

\* DCGScorer::new(k).measure(labels) and NDCGScorer::new(k).measure(labels)
CallMeasure ==
    /\ m_measure = None
    /\ m_measure' = Some(<<DCGScore(m_labels, m_k), NDCGMeasure(m_labels, m_k)>>)
    /\ UNCHANGED <<m_labels, m_k, m_changes, m_delta, tmVars, learnVars, cliVars,
                   histVars>>

NextMetric == CallSwapChanges \/ CallDelta \/ CallMeasure

SpecMetric == InitMetric /\ [][NextMetric]_vars

(***************************************************************************)
(* Spec: LambdaMART::new on a bounded data set and configuration, then     *)
(* learn() called any number of times (up to MaxLearnCalls).               *)
(***************************************************************************)
Zeros(n) == [p \in 1..n |-> 0]

Len0 == Len(dataset.instances)

\* the data sets of the model: NInst instances with NFeat features each
DataSets ==
    {[n \in 1..NInst |-> [qid |-> qids[n], label |-> labels[n], values |-> values[n]]] :
        qids \in {q \in [1..NInst -> 1..MaxQid] :
                     /\ q[1] = 1
                     /\ \A n \in 1..(NInst - 1) : q[n] <= q[n + 1] /\ q[n + 1] <= q[n] + 1
                     /\ \A n \in 1..(NInst - 2) : q[n] = q[n + 1]},
        labels \in [1..NInst -> 0..MaxGrade],
        values \in [1..NInst -> [1..NFeat -> {v * FX : v \in 0..MaxFeatVal}]]}

\* the configurations of the model
RECURSIVE Pow(_, _)
Pow(b, e) == IF e = 0 THEN 1 ELSE b * Pow(b, e - 1)

\* the validate data of the model: one instance for every feature vector of
\* the model, in two queries
NValid == Pow(MaxFeatVal + 1, NFeat)
ValidateData ==
    [n \in 1..NValid |->
        [qid |-> IF 2 * n <= NValid THEN 1 ELSE 2,
         label |-> (n - 1) % (MaxGrade + 1),
         values |-> [f \in 1..NFeat |->
                        FX * (((n - 1) \div Pow(MaxFeatVal + 1, f - 1)) % (MaxFeatVal + 1))]]]

Configs ==
    [trees : 0..MaxTrees,
     max_leaves : 1..MaxLeaves,
     learning_rate : {LearningRate},
     thresholds : (NInst - 1)..NInst,
     min_leaf_samples : 1..MaxMinLeaf,
     metric_k : {MetricK},
     validate : {None, Some(ValidateData)}]

LearnIdle ==
    /\ ensemble = <<>> /\ calls = 0 /\ pc = "idle" /\ it = 0
    /\ model_scores = <<>> /\ lambdas = <<>> /\ weights = <<>>
    /\ nodes = <<>> /\ queue = {} /\ leaves = 0 /\ leaf_output = <<>>
    /\ popped = None /\ split_result = None /\ train_score = None
    /\ updates = 0
    /\ validate_scores = None /\ validate_score = None

\* LambdaMART::new(config)
Init ==
    /\ config \in Configs
    /\ \E data \in DataSets : dataset = DataSetLoad(data, config.thresholds)
    /\ LearnIdle
    /\ TMIdle
    /\ CliIdle
    /\ HistIdle
    /\ MetricIdle

fitVars == <<nodes, queue, leaves, leaf_output, popped, split_result>>
trainingVars == <<model_scores, lambdas, weights>>
pureVars == <<tmVars, metricVars, cliVars, histVars>>
validateVars == <<validate_scores, validate_score>>
quiet == <<pureVars, updates, validateVars>>

\* learn(): TrainingSet::new, then the loop is entered
LearnStart ==
    /\ pc = "idle"
    /\ calls < MaxLearnCalls
    /\ Len(ensemble) + config.trees <= MaxEnsemble
    /\ calls' = calls + 1
    /\ model_scores' = Zeros(Len0)
    /\ lambdas' = Zeros(Len0)
    /\ weights' = Zeros(Len0)
    /\ it' = 0
    /\ validate_scores' = IF config.validate = None THEN None
                          ELSE Some(Zeros(Len(config.validate[1])))
    /\ pc' = "loop"
    /\ UNCHANGED <<dataset, config, ensemble, fitVars, train_score, validate_score,
                   pureVars, updates>>

\* a variant of LearnReturn that also leaves the loop after early_stop
\* iterations with a validate set
LearnReturnEarlyStop ==
    /\ pc = "loop"
    /\ \/ it >= config.trees
       \/ validate_scores # None /\ it >= config.early_stop
    /\ pc' = "idle"
    /\ UNCHANGED <<dataset, config, ensemble, calls, it, trainingVars, fitVars,
                   train_score, quiet>>

\* learn(): the range 0..trees is exhausted, Ok(()) is returned
LearnReturn ==
    /\ pc = "loop"
    /\ it >= config.trees
    /\ pc' = "idle"
    /\ UNCHANGED <<dataset, config, ensemble, calls, it, trainingVars, fitVars,
                   train_score, quiet>>

\* a variant of CallUpdateLambdasWeights that also adds the new lambdas to the
\* model scores
CallUpdateLambdasWeightsAndScores ==
    /\ pc = "loop"
    /\ it < config.trees
    /\ LET lw == UpdateLambdasWeights(dataset.instances, model_scores,
                                      <<lambdas, weights>>, config.metric_k)
       IN /\ lambdas' = lw[1]
          /\ weights' = lw[2]
          /\ model_scores' = UpdateResult(model_scores, lw[1])
    /\ pc' = "new_tree"
    /\ UNCHANGED <<dataset, config, ensemble, calls, it, fitVars,
                   train_score, quiet>>

\* learn(): training.update_lambdas_weights(&self.config.metric)
CallUpdateLambdasWeights ==
    /\ pc = "loop"
    /\ it < config.trees
    /\ LET lw == UpdateLambdasWeights(dataset.instances, model_scores,
                                      <<lambdas, weights>>, config.metric_k)
       IN /\ lambdas' = lw[1]
          /\ weights' = lw[2]
    /\ pc' = "new_tree"
    /\ UNCHANGED <<dataset, config, ensemble, calls, it, model_scores, fitVars,
                   train_score, quiet>>

\* RegressionTree::new and the start of fit: the root node is pushed and queued
FitStart ==
    /\ pc = "new_tree"
    /\ nodes' = <<NodeNew(None)>>
    /\ queue' = {[index |-> 1, sample |-> [p \in 1..Len0 |-> p]]}
    /\ leaves' = 0
    /\ leaf_output' = Zeros(Len0)
    /\ popped' = None
    /\ split_result' = None
    /\ pc' = "fit"
    /\ UNCHANGED <<dataset, config, ensemble, calls, it, trainingVars,
                   train_score, quiet>>

\* a variant of IsMax for a queue that pops in any order
IsAny(nd) == nd \in queue

\* BinaryHeap::pop: an element whose variance no other element exceeds
IsMax(nd) ==
    \A other \in queue :
        Variance(lambdas, nd.sample) >= Variance(lambdas, other.sample)

\* a variant of ReachedLimit that does not count the popped node
ReachedLimitWithoutPopped(nd) == leaves + Cardinality(queue \ {nd}) >= config.max_leaves

\* a variant of ReachedLimit for a tree without a leaf limit
ReachedLimitNever(nd) == nd \notin queue

\* the leaf limit test of fit after the pop of nd
ReachedLimit(nd) == 1 + leaves + Cardinality(queue \ {nd}) >= config.max_leaves

\* what both leaf branches of fit do with the popped node
MakeLeaf(nd) ==
    LET value == NewtonOutput(lambdas, weights, nd.sample)
        output == FMul(value, config.learning_rate)
    IN /\ nodes' = SetLeafNode(nodes, nd.index, value)
       /\ leaf_output' = UpdateOutput(leaf_output, nd.sample, output)
       /\ leaves' = leaves + 1
       /\ queue' = queue \ {nd}
       /\ popped' = Some(nd)

\* fit: the popped node becomes a leaf because the leaf limit is reached
FitLeafLimit ==
    /\ pc = "fit"
    /\ \E nd \in queue :
        /\ IsMax(nd)
        /\ ReachedLimit(nd)
        /\ MakeLeaf(nd)
    /\ split_result' = None
    /\ UNCHANGED <<dataset, config, ensemble, calls, pc, it, trainingVars,
                   train_score, quiet>>

\* fit: the popped node becomes a leaf because split returned None
FitLeafNoSplit ==
    /\ pc = "fit"
    /\ \E nd \in queue :
        /\ IsMax(nd)
        /\ ~ReachedLimit(nd)
        /\ SampleSplit(dataset, lambdas, nd.sample, config.min_leaf_samples) = None
        /\ MakeLeaf(nd)
    /\ split_result' = None
    /\ UNCHANGED <<dataset, config, ensemble, calls, pc, it, trainingVars,
                   train_score, quiet>>

\* fit: the popped node is split and its two children are queued
FitSplit ==
    /\ pc = "fit"
    /\ \E nd \in queue :
        LET result == SampleSplit(dataset, lambdas, nd.sample, config.min_leaf_samples)
        IN /\ IsMax(nd)
           /\ ~ReachedLimit(nd)
           /\ result # None
           /\ nodes' = SplitNode(nodes, nd.index, result[1].fid, result[1].threshold)
           /\ queue' = (queue \ {nd}) \cup
                  {[index |-> Len(nodes) + 1, sample |-> result[1].left],
                   [index |-> Len(nodes) + 2, sample |-> result[1].right]}
           /\ popped' = Some(nd)
           /\ split_result' = result
    /\ UNCHANGED <<dataset, config, ensemble, calls, pc, it, trainingVars, leaves,
                   leaf_output, train_score, quiet>>

\* fit returns leaf_output; learn(): training.update_result(&leaf_output)
CallUpdateResult ==
    /\ pc = "fit"
    /\ queue = {}
    /\ model_scores' = UpdateResult(model_scores, leaf_output)
    /\ pc' = "evaluate"
    /\ UNCHANGED <<dataset, config, ensemble, calls, it, lambdas, weights, fitVars,
                   train_score, quiet>>

\* learn(): training.evaluate, validate.update and evaluate, self.ensemble.push(tree),
\* and the next iteration
EvaluateAndPush ==
    /\ pc = "evaluate"
    /\ train_score' = Some(TrainingEvaluate(dataset.instances, model_scores,
                                            config.metric_k))
    /\ ensemble' = Append(ensemble, [learning_rate |-> config.learning_rate,
                                     nodes |-> nodes])
    /\ IF validate_scores = None
       THEN UNCHANGED validateVars
       ELSE LET tree == [learning_rate |-> config.learning_rate, nodes |-> nodes]
                scores == ValidateUpdate(validate_scores[1], config.validate[1], tree)
            IN /\ validate_scores' = Some(scores)
               /\ validate_score' = Some(ValidateMeasure(config.validate[1], scores,
                                                          config.metric_k))
    /\ it' = it + 1
    /\ pc' = "loop"
    /\ UNCHANGED <<dataset, config, calls, trainingVars, fitVars, pureVars, updates>>

Next ==
    \/ LearnStart
    \/ LearnReturn
    \/ CallUpdateLambdasWeights
    \/ FitStart
    \/ FitLeafLimit
    \/ FitLeafNoSplit
    \/ FitSplit
    \/ CallUpdateResult
    \/ EvaluateAndPush

Spec == Init /\ [][Next]_vars

(***************************************************************************)
(* SpecLambda: TrainingSet::from on a bounded data set, init_model_scores  *)
(* with any bounded scores, then update_lambdas_weights called repeatedly  *)
(* with the model scores left alone.                                       *)
(***************************************************************************)
LambdaDataSets ==
    {[n \in 1..LambdaN |-> [qid |-> qids[n], label |-> labels[n], values |-> <<0>>]] :
        qids \in {q \in [1..LambdaN -> 1..MaxQid] : q[1] = 1},
        labels \in [1..LambdaN -> 0..MaxLabel]}

InitLambda ==
    /\ \E data \in LambdaDataSets : dataset = DataSetLoad(data, 1)
    /\ config = <<>>
    /\ model_scores \in [1..LambdaN -> {s * FX : s \in (0 - MaxScore)..MaxScore}]
    /\ lambdas = Zeros(LambdaN)
    /\ weights = Zeros(LambdaN)
    /\ updates = 0
    /\ validate_scores = None /\ validate_score = None
    /\ ensemble = <<>> /\ calls = 0 /\ pc = "idle" /\ it = 0
    /\ nodes = <<>> /\ queue = {} /\ leaves = 0 /\ leaf_output = <<>>
    /\ popped = None /\ split_result = None /\ train_score = None
    /\ TMIdle
    /\ CliIdle
    /\ HistIdle
    /\ MetricIdle

\* training.update_lambdas_weights()
UpdateCall ==
    /\ updates < MaxUpdates
    /\ updates' = updates + 1
    /\ LET lw == UpdateLambdasWeights(dataset.instances, model_scores,
                                      <<lambdas, weights>>, MetricK)
       IN /\ lambdas' = lw[1]
          /\ weights' = lw[2]
    /\ UNCHANGED <<dataset, config, ensemble, calls, pc, it, model_scores, fitVars,
                   train_score, pureVars, validateVars>>

NextLambda == UpdateCall

SpecLambda == InitLambda /\ [][NextLambda]_vars


(***************************************************************************)
(* SpecLearn: learn() run to its end. The configuration carries the        *)
(* early_stop field of Config, which learn() never reads, and the steps of *)
(* a learn() call that has started are taken until it returns; whether     *)
(* learn() is called again is up to the caller.                            *)
(***************************************************************************)
LearnConfigs ==
    [trees : 0..MaxTrees,
     max_leaves : 0..MaxLeaves,
     learning_rate : {LearningRate},
     thresholds : {NInst},
     min_leaf_samples : 1..MaxMinLeaf,
     metric_k : {MetricK},
     validate : {None, Some(ValidateData)},
     early_stop : 0..MaxEarlyStop]

\* the data sets of SpecLearn: one query, told apart by the first feature
LearnDataSets ==
    {d \in DataSets : \A n \in 1..NInst :
        /\ d[n].qid = 1
        /\ \A f \in 2..NFeat : d[n].values[f] = 0}

InitLearn ==
    /\ config \in LearnConfigs
    /\ \E data \in LearnDataSets : dataset = DataSetLoad(data, config.thresholds)
    /\ LearnIdle
    /\ TMIdle
    /\ CliIdle
    /\ HistIdle
    /\ MetricIdle

\* the steps of learn() after its start
LearnStep ==
    \/ LearnReturn
    \/ CallUpdateLambdasWeights
    \/ FitStart
    \/ FitLeafLimit
    \/ FitLeafNoSplit
    \/ FitSplit
    \/ CallUpdateResult
    \/ EvaluateAndPush

\* learn() is sequential code that runs on once called: weak fairness of
\* LearnStep. A LearnStep is enabled exactly in the states inside learn(),
\* pc # "idle" (the loop either goes on or returns, and fit either pops a node
\* or is done), so WF_vars(LearnStep), which is
\* []<>(~ENABLED <<LearnStep>>_vars) \/ []<><<LearnStep>>_vars, is written with
\* that state predicate.
LearnFairness == []<>(pc = "idle") \/ []<><<LearnStep>>_vars

SpecLearn == InitLearn /\ [][Next]_vars /\ LearnFairness

(***************************************************************************)
(* SpecDriver: LambdaMART::new on any configuration a caller can build,    *)
(* the bin budget and max_leaves from 0 on, then init() and learn() as in  *)
(* Spec. Neither new (lambdamart.rs 68-73) nor init (76-78) has an error   *)
(* path, so the driver is constructed for each of them.                    *)
(***************************************************************************)
DriverConfigs ==
    [trees : {1},
     max_leaves : 0..MaxLeaves,
     learning_rate : {LearningRate},
     thresholds : 0..NInst,
     min_leaf_samples : {1},
     metric_k : {MetricK},
     validate : {None}]

InitDriver ==
    /\ config \in DriverConfigs
    /\ \E data \in {d \in DataSets : \A n \in 1..NInst : d[n].qid = 1} :
          dataset = DataSetLoad(data, config.thresholds)
    /\ LearnIdle
    /\ TMIdle
    /\ CliIdle
    /\ HistIdle
    /\ MetricIdle

SpecDriver == InitDriver /\ [][Next]_vars

\* a training iteration is running or has run
TrainingRan == pc \in {"new_tree", "fit", "evaluate"} \/ it > 0 \/ ensemble # <<>>

\* C14: a driver constructed with a bin budget < 1 or with max_leaves < 1
\* surfaces a configuration error at construction: no training iteration
\* runs on such a configuration.
C14_NoTrainingOnBadConfig ==
    (config.thresholds < 1 \/ config.max_leaves < 1) => ~TrainingRan


(***************************************************************************)
(* SpecCli: main() of the lambdamart subcommand (lambdamart/mod.rs) on     *)
(* bounded command-line values: LambdaMARTParameter::parse, then config(). *)
(***************************************************************************)
\* the values config() writes into the Config
ConfigTrees == 1000
ConfigMaxLeaves == 10
ConfigMinSamplesPerLeaf == 1
ConfigThresholds == 256

\* the values a flag is given in the model: 1..MaxCli and the value config()
\* writes
CliValues(written) == (1..MaxCli) \cup {written}

InitCli ==
    /\ cli_args \in [trees : CliValues(ConfigTrees),
                     leaves : CliValues(ConfigMaxLeaves),
                     shrinkage : {n * LearningRate : n \in 1..MaxCli},
                     thresholds : CliValues(ConfigThresholds),
                     min_leaf_support : CliValues(ConfigMinSamplesPerLeaf),
                     early_stop : 1..MaxCli]
    /\ cli_param = None
    /\ cli_config = None
    /\ LearnUnused
    /\ TMIdle
    /\ MetricIdle
    /\ HistIdle

\* LambdaMARTParameter::parse
ParameterParse(matches) ==
    [trees |-> matches.trees,
     leaves |-> matches.leaves,
     shrinkage |-> matches.shrinkage,
     thresholds_count |-> matches.thresholds,
     min_leaf_support |-> matches.min_leaf_support,
     early_stop |-> matches.early_stop]

\* LambdaMARTParameter::config
ParameterConfig(param) ==
    [trees |-> ConfigTrees,
     learning_rate |-> LearningRate,
     max_leaves |-> ConfigMaxLeaves,
     min_leaf_samples |-> ConfigMinSamplesPerLeaf,
     thresholds |-> ConfigThresholds,
     early_stop |-> param.early_stop]

\* main(): let param = LambdaMARTParameter::parse(matches)
MainParse ==
    /\ cli_args # <<>>
    /\ cli_param = None
    /\ cli_param' = Some(ParameterParse(cli_args))
    /\ UNCHANGED <<cli_args, cli_config, tmVars, metricVars, learnVars,
                   histVars>>

\* main(): LambdaMART::new(param.config())
MainConfig ==
    /\ cli_param # None
    /\ cli_config = None
    /\ cli_config' = Some(ParameterConfig(cli_param[1]))
    /\ UNCHANGED <<cli_args, cli_param, tmVars, metricVars, learnVars,
                   histVars>>

NextCli == MainParse \/ MainConfig

SpecCli == InitCli /\ [][NextCli]_vars

\* C15: the values given on the command line for --trees, --leaves,
\* --shrinkage, --thresholds and --min-leaf-support are the values of trees,
\* max_leaves, learning_rate, thresholds and min_leaf_samples in the Config
\* handed to the driver.
C15_ConfigHoldsCliValues ==
    cli_config # None =>
        /\ cli_config[1].trees = cli_args.trees
        /\ cli_config[1].max_leaves = cli_args.leaves
        /\ cli_config[1].learning_rate = cli_args.shrinkage
        /\ cli_config[1].thresholds = cli_args.thresholds
        /\ cli_config[1].min_leaf_samples = cli_args.min_leaf_support

(***************************************************************************)
(* Properties.                                                             *)
(***************************************************************************)
Range(s) == {s[p] : p \in 1..Len(s)}

\* the leaves of the tree under construction: the nodes that store an output
LeafNodes == {n \in 1..Len(nodes) : nodes[n].output # None}

\* fit has left its frontier loop: the queue is empty
FitEnded == (pc = "fit" /\ queue = {}) \/ pc = "evaluate"

\* C1: when the frontier loop of RegressionTree::fit ends, the tree has at
\* least 1 and at most max_leaves leaves (max_leaves >= 1).
C1_LeavesWithinLimit ==
    FitEnded =>
        /\ Cardinality(LeafNodes) >= 1
        /\ Cardinality(LeafNodes) <= config.max_leaves
        /\ leaves = Cardinality(LeafNodes)

\* a fitted tree that uses its whole leaf budget of three leaves
C1_Witness ==
    /\ FitEnded
    /\ config.max_leaves = 3
    /\ Cardinality(LeafNodes) = 3

\* C2: every split returned by TrainingSample::split (min_leaf_samples >= 1)
\* has at least min_leaf_samples instances on each side, the two sides are
\* disjoint and their union is the parent sample's index list.
C2_SplitIsPartition ==
    split_result # None =>
        LET split == split_result[1]
            parent == popped[1].sample
        IN /\ Len(split.left) >= config.min_leaf_samples
           /\ Len(split.right) >= config.min_leaf_samples
           /\ Range(split.left) \cap Range(split.right) = {}
           /\ Range(split.left) \cup Range(split.right) = Range(parent)
           /\ Len(split.left) + Len(split.right) = Len(parent)

\* a split of the three instances, two of them on the left
C2_Witness ==
    /\ split_result # None
    /\ Len(popped[1].sample) = 3
    /\ Len(split_result[1].left) = 2

\* the ensemble's score of every training instance
EnsembleScores ==
    [n \in 1..Len(dataset.instances) |->
        EnsembleEvaluate(ensemble, dataset.instances[n])]

\* C3: before the first and after every completed iteration of learn(), the
\* model score of every training instance is the ensemble's score of it, and
\* the train metric reported last is the metric of the ensemble's scores.
C3_ModelScoreIsEnsembleScore ==
    pc = "loop" =>
        /\ model_scores = EnsembleScores
        /\ (it > 0 => train_score = Some(TrainingEvaluate(dataset.instances,
                                                          EnsembleScores,
                                                          config.metric_k)))

\* the same, for the first learn() call on the instance only
FirstCallModelScoreIsEnsembleScore ==
    (pc = "loop" /\ calls = 1) =>
        /\ model_scores = EnsembleScores
        /\ (it > 0 => train_score = Some(TrainingEvaluate(dataset.instances,
                                                          EnsembleScores,
                                                          config.metric_k)))

\* C4: a second update_lambdas_weights call with the model scores unchanged
\* leaves lambda and weight as the first call left them.
C4_UpdateIsIdempotent ==
    [][(updates >= 1 /\ updates' = updates + 1) =>
           (lambdas' = lambdas /\ weights' = weights)]_vars

\* C5: the ensemble never holds more than `trees` trees.
C5_EnsembleWithinTrees == Len(ensemble) <= config.trees

\* the features whose best split has the maximal s among the features of the
\* sample popped last
TiedFids ==
    LET splits == FeatureSplits(dataset, lambdas, popped[1].sample,
                                config.min_leaf_samples, 1)
    IN {splits[p][1] : p \in {q \in 1..Len(splits) :
                                 \A o \in 1..Len(splits) : splits[q][3] >= splits[o][3]}}

\* C6: of several features tied at the maximal S, split selects the first
\* (lowest) feature id.
C6_TieSelectsFirstFid ==
    split_result # None =>
        \A fid \in TiedFids : split_result[1].fid <= fid

\* C6, as the code has it: of several features tied at the maximal S, split
\* selects the last (highest) feature id.
C6_TieSelectsLastFid ==
    split_result # None =>
        /\ split_result[1].fid \in TiedFids
        /\ \A fid \in TiedFids : split_result[1].fid >= fid

\* a split chosen among two tied features
C6_Witness ==
    /\ split_result # None
    /\ Cardinality(TiedFids) = 2

\* C7: a ThresholdMap has one map entry per value, every entry is a valid
\* index into thresholds, value[i] <= thresholds[map[i]], and map[i] is the
\* smallest such index.
C7_MapIsSmallestBin ==
    tm # None =>
        LET thresholds == tm[1].thresholds
            map == tm[1].map
        IN /\ Len(map) = Len(tm_values)
           /\ \A n \in 1..Len(tm_values) :
                /\ map[n] \in 1..Len(thresholds)
                /\ tm_values[n] <= thresholds[map[n]]
                /\ \A b \in 1..(map[n] - 1) : tm_values[n] > thresholds[b]

\* a map over more values than bins that uses a bin between the first and last
C7_Witness ==
    /\ tm # None
    /\ Len(tm_values) > tm_max_bins
    /\ \E n \in 1..Len(tm_values) :
          tm[1].map[n] > 1 /\ tm[1].map[n] < Len(tm[1].thresholds)

\* C8: the thresholds of a ThresholdMap are strictly ascending.
C8_ThresholdsStrictlyAscending ==
    tm # None =>
        \A b \in 1..(Len(tm[1].thresholds) - 1) :
            tm[1].thresholds[b] < tm[1].thresholds[b + 1]

\* a matrix over n labels: n rows of n entries, a zero diagonal, and the same
\* value at [i][j] and [j][i]
IsSymmetricZeroDiagonal(matrix, n) ==
    /\ Len(matrix) = n
    /\ \A p \in 1..n :
        /\ Len(matrix[p]) = n
        /\ matrix[p][p] = 0
        /\ \A q \in 1..n : matrix[p][q] = matrix[q][p]

\* C9: the swap matrix of either metric (NDCG swap_changes, DCG delta) is n x n
\* with a zero diagonal and symmetric.
C9_SwapMatrixSymmetric ==
    /\ m_changes # None => IsSymmetricZeroDiagonal(m_changes[1], Len(m_labels))
    /\ m_delta # None => IsSymmetricZeroDiagonal(m_delta[1], Len(m_labels))

\* both matrices of a label vector longer than the truncation level, with a
\* non-zero entry
C9_Witness ==
    /\ m_changes # None
    /\ m_delta # None
    /\ Len(m_labels) > m_k
    /\ MaxDCG(m_labels, m_k) > 0
    /\ \E p, q \in 1..Len(m_labels) :
          m_changes[1][p][q] # 0 /\ m_changes[1][p][q] # NaN /\ m_delta[1][p][q] # 0

\* C10: every entry of the swap_changes matrix is non-negative.
C10_SwapChangesNonNegative ==
    m_changes # None =>
        \A p, q \in 1..Len(m_labels) : m_changes[1][p][q] >= 0

\* C10, as the code has it: when the ideal DCG is positive, the entry of the
\* ranks i < j (i below the truncation level) is non-negative when
\* label[i] >= label[j] and non-positive when label[i] <= label[j]; every
\* other entry is zero.
C10_SwapChangesSigned ==
    (m_changes # None /\ MaxDCG(m_labels, m_k) > 0) =>
        \A p, q \in 1..Len(m_labels) :
            LET i == Min(p, q)
                j == IF p < q THEN q ELSE p
                c == m_changes[1][p][q]
            IN IF p = q \/ i > m_k THEN c = 0
               ELSE /\ c # NaN
                    /\ (m_labels[i] >= m_labels[j]) => (c >= 0)
                    /\ (m_labels[i] <= m_labels[j]) => (c <= 0)

\* a matrix with a negative entry
C10_Witness ==
    /\ m_changes # None
    /\ MaxDCG(m_labels, m_k) > 0
    /\ \E p, q \in 1..Len(m_labels) :
          m_changes[1][p][q] < 0 /\ m_changes[1][p][q] # NaN

\* the label vector with the labels at the ranks p and q exchanged
SwapLabels(labels, p, q) == [labels EXCEPT ![p] = labels[q], ![q] = labels[p]]

\* a and b agree up to the rounding of the last digit of each operand
Close(a, b) == Abs(a - b) <= 2

\* the change of the NDCG measure when the labels at the ranks p and q are
\* exchanged
MeasureChange(p, q) ==
    NDCGMeasure(SwapLabels(m_labels, p, q), m_k) - NDCGMeasure(m_labels, m_k)

\* C11: for every label vector, every truncation level and every pair of
\* ranks i # j, the magnitude of swap_changes[i][j] is the magnitude of the
\* change of the measure when the labels at i and j are exchanged.
C11_SwapChangeIsMeasureChange ==
    m_changes # None =>
        \A p, q \in 1..Len(m_labels) :
            p # q => Close(Abs(m_changes[1][p][q]), Abs(MeasureChange(p, q)))

\* the same, for the label vectors that fit under the truncation level and
\* have a non-zero ideal DCG
WithinTruncationSwapChangeIsMeasureChange ==
    (m_changes # None /\ Len(m_labels) <= m_k /\ MaxDCG(m_labels, m_k) # 0) =>
        \A p, q \in 1..Len(m_labels) :
            p # q => Close(Abs(m_changes[1][p][q]), Abs(MeasureChange(p, q)))

\* C12: for every label vector and every truncation level, the DCG measure is
\* >= 0 and the NDCG measure lies in [0, 1].
C12_MeasuresInRange ==
    m_measure # None =>
        /\ m_measure[1][1] >= 0
        /\ m_measure[1][2] >= 0
        /\ m_measure[1][2] <= FX

\* C12, as the code has it: for every vector of non-negative labels and every
\* truncation level, the DCG measure is >= 0 and the NDCG measure lies in
\* [0, 1].
C12_MeasuresInRangeOfGrades ==
    (m_measure # None /\ \A p \in 1..Len(m_labels) : m_labels[p] >= 0) =>
        /\ m_measure[1][1] >= 0
        /\ m_measure[1][2] >= 0
        /\ m_measure[1][2] <= FX

\* the measures of a vector of grades that is not in ideal order: the NDCG
\* measure is strictly between 0 and 1
C12_Witness ==
    /\ m_measure # None
    /\ \A p \in 1..Len(m_labels) : m_labels[p] >= 0
    /\ m_measure[1][1] > 0
    /\ m_measure[1][2] > 0
    /\ m_measure[1][2] < FX

\* the score that the trees first..last of the ensemble give every validate
\* instance
ValidateTreeSums(first, last) ==
    [n \in 1..Len(config.validate[1]) |->
        EnsembleEvaluate(SubSeq(ensemble, first, last), config.validate[1][n])]

\* C13: after every iteration of learn() run with a validate set, the score
\* of every validate instance is the sum, over all the trees built so far, of
\* learning_rate times the leaf output the tree gives the instance.
C13_ValidateScoreIsTreeSum ==
    (pc = "loop" /\ it > 0 /\ validate_scores # None) =>
        validate_scores[1] = ValidateTreeSums(1, Len(ensemble))

\* the same, over the trees built by the learn() call that is running
CurrentCallValidateScoreIsTreeSum ==
    (pc = "loop" /\ it > 0 /\ validate_scores # None) =>
        validate_scores[1] = ValidateTreeSums(Len(ensemble) - it + 1, Len(ensemble))

\* the features whose value is the same for every instance of the sample
\* popped last
ConstantFids ==
    {fid \in 1..dataset.nfeatures :
        \A p, q \in 1..Len(popped[1].sample) :
            InstanceValue(dataset.instances[popped[1].sample[p]], fid) =
            InstanceValue(dataset.instances[popped[1].sample[q]], fid)}

\* C16: for any sample and min_leaf_samples >= 1, best_split on the histogram
\* of a feature whose value is the same for every instance of the sample
\* returns none, and no split is made on such a feature.
C16_ConstantFeatureHasNoSplit ==
    popped # None =>
        /\ \A fid \in ConstantFids :
              BestSplit(FeatureHistogram(dataset, lambdas, fid, popped[1].sample),
                        config.min_leaf_samples) = None
        /\ split_result # None => split_result[1].fid \notin ConstantFids

\* a sample of several instances that is split although one of its features
\* is constant on it
C16_Witness ==
    /\ popped # None
    /\ split_result # None
    /\ Len(popped[1].sample) >= 2
    /\ ConstantFids # {}
    /\ \E n \in 1..Len(lambdas) : lambdas[n] # 0

\* every lambda and every weight of the training set is zero
ZeroLambdasWeights ==
    /\ lambdas # <<>>
    /\ \A n \in 1..Len(lambdas) : lambdas[n] = 0 /\ weights[n] = 0

\* C17: if every lambda and weight of the training set is zero, every leaf of
\* the fitted tree stores output 0, and adding the tree's leaf outputs leaves
\* model_score unchanged.
C17_ZeroLambdasLeaveScores ==
    [][(pc = "fit" /\ pc' = "evaluate" /\ ZeroLambdasWeights) =>
           /\ \A n \in LeafNodes : nodes[n].output = Some(0)
           /\ \A n \in 1..Len(leaf_output) : leaf_output[n] = 0
           /\ model_scores' = model_scores]_vars

\* a tree of several leaves fitted to zero lambdas and weights, its outputs
\* added
C17_Witness ==
    /\ pc = "evaluate"
    /\ ZeroLambdasWeights
    /\ Cardinality(LeafNodes) >= 2

\* C18: the NDCG measure is 0 for every label vector whose ideal DCG is 0.
C18_ZeroIdealMeasuresZero ==
    (m_measure # None /\ MaxDCG(m_labels, m_k) = 0) => m_measure[1][2] = 0

\* the NDCG measure of a non-empty label vector with a zero ideal DCG under a
\* truncation level that keeps some of it
C18_Witness ==
    /\ m_measure # None
    /\ Len(m_labels) >= 2
    /\ m_k >= 1
    /\ MaxDCG(m_labels, m_k) = 0
    /\ m_measure[1][2] = 0

\* the index vectors of the groups first.. of a query_iter result, one after
\* the other
RECURSIVE GroupIndices(_, _)
GroupIndices(groups, first) ==
    IF first > Len(groups) THEN <<>>
    ELSE groups[first][2] \o GroupIndices(groups, first + 1)

\* C19: query_iter yields, in data set order, one (qid, indices) group per
\* maximal run of instances with the same qid: every group is non-empty, holds
\* the qid of each of its instances, the groups one after the other are the
\* indices of the data set in order, each exactly once, and two neighbouring
\* groups have different qids, so a qid that comes back after another one
\* starts a new group.
C19_QueryIterGroupsRuns ==
    LET instances == dataset.instances
        groups == QueryIter(instances, 1)
    IN updates >= 1 =>
        /\ \A g \in 1..Len(groups) :
              /\ Len(groups[g][2]) >= 1
              /\ \A o \in 1..Len(groups[g][2]) :
                    instances[groups[g][2][o]].qid = groups[g][1]
        /\ GroupIndices(groups, 1) = [n \in 1..Len(instances) |-> n]
        /\ \A g \in 1..(Len(groups) - 1) : groups[g][1] # groups[g + 1][1]

\* update_lambdas_weights has iterated over a data set in which a qid comes
\* back after a different one, and query_iter gave the two runs two groups
C19_Witness ==
    LET groups == QueryIter(dataset.instances, 1)
    IN /\ updates >= 1
       /\ \E g, h \in 1..Len(groups) :
             /\ g + 1 < h
             /\ groups[g][1] = groups[h][1]

\* the trees in the ensemble: `trees` for every learn() call that has returned
\* and one for every iteration the running call has finished
TreesOfCalls ==
    IF pc = "idle" THEN calls * config.trees
    ELSE (calls - 1) * config.trees + it

IsFrontier(node) ==
    /\ node.output = None /\ node.fid = None /\ node.threshold = None
    /\ node.left = None /\ node.right = None

IsLeaf(node) ==
    /\ node.output # None /\ node.fid = None /\ node.threshold = None
    /\ node.left = None /\ node.right = None

IsInternal(node) ==
    /\ node.output = None /\ node.fid # None /\ node.threshold # None
    /\ node.left # None /\ node.right # None

\* C21: in fit every node of the arena leaves the frontier state exactly once
\* and for good: a node is a frontier node, a leaf (output, no children) or an
\* internal node (fid, threshold, both children, no output), never a mix; a
\* step of fit leaves every leaf and every internal node as it is; and when
\* fit has returned no node is a frontier node and both children of every
\* internal node are nodes of the arena.
C21_NodeSetOnce ==
    /\ [](\A n \in 1..Len(nodes) :
             IsFrontier(nodes[n]) \/ IsLeaf(nodes[n]) \/ IsInternal(nodes[n]))
    /\ [][pc = "fit" =>
             /\ Len(nodes') >= Len(nodes)
             /\ \A n \in 1..Len(nodes) :
                   ~IsFrontier(nodes[n]) => nodes'[n] = nodes[n]]_vars
    /\ [](FitEnded =>
             \A n \in 1..Len(nodes) :
                 /\ ~IsFrontier(nodes[n])
                 /\ IsInternal(nodes[n]) =>
                       /\ nodes[n].left[1] \in (n + 1)..Len(nodes)
                       /\ nodes[n].right[1] \in (n + 1)..Len(nodes)
                       /\ nodes[n].left[1] # nodes[n].right[1])

\* fit has returned a tree with two internal nodes and three leaves
C21_Witness ==
    /\ FitEnded
    /\ Cardinality({n \in 1..Len(nodes) : IsInternal(nodes[n])}) = 2
    /\ Cardinality({n \in 1..Len(nodes) : IsLeaf(nodes[n])}) = 3

\* the bins of h_hist that best_split(h_min_leaf) does not skip, and their S
HistCount == h_hist[1][Len(h_hist[1])].acc_count
HistSum == h_hist[1][Len(h_hist[1])].acc_sum
Admissible(b) ==
    /\ h_hist[1][b].acc_count >= h_min_leaf
    /\ HistCount - h_hist[1][b].acc_count >= h_min_leaf
SOfBin(b) ==
    SValue(h_hist[1][b].acc_sum, h_hist[1][b].acc_count,
           HistSum - h_hist[1][b].acc_sum, HistCount - h_hist[1][b].acc_count)

\* what C22 says of the result of best_split
BestSplitIsFirstMaximum ==
    LET bins == 1..Len(h_hist[1])
    IN IF \A b \in bins : ~Admissible(b)
       THEN h_split[1] = None
       ELSE /\ h_split[1] # None
            /\ \E b \in bins :
                  /\ Admissible(b)
                  /\ h_split[1][1] = <<h_hist[1][b].threashold, SOfBin(b)>>
                  /\ SOfBin(b) # NaN
                  /\ \A o \in bins : Admissible(o) => ~FGt(SOfBin(o), SOfBin(b))
                  /\ \A o \in 1..(b - 1) : Admissible(o) => SOfBin(o) # SOfBin(b)

C23_HistogramIsCumulative ==
    h_hist # None =>
        LET hist == h_hist[1]
            Fed(b) == {p \in 1..Len(h_indices) : h_tmap.map[h_indices[p]] <= b}
            FedTargets(b) ==
                [p \in 1..Len(h_indices) |->
                    IF p \in Fed(b) THEN h_targets[h_indices[p]] ELSE 0]
        IN /\ Len(hist) = Len(h_tmap.thresholds)
           /\ \A b \in 1..Len(hist) :
                 /\ hist[b].acc_count = Cardinality(Fed(b))
                 /\ hist[b].acc_sum = SumSeq(FedTargets(b))
           /\ \A b \in 1..(Len(hist) - 1) : hist[b].acc_count <= hist[b + 1].acc_count
           /\ hist[Len(hist)].acc_count = Len(h_indices)

\* the histogram of a proper subset of the instances whose first bin is empty,
\* whose counts grow from bin to bin and whose sums are not all zero
C23_Witness ==
    /\ h_hist # None
    /\ Len(h_indices) = 2
    /\ Len(h_hist[1]) >= 3
    /\ h_hist[1][1].acc_count = 0
    /\ h_hist[1][2].acc_count = 1
    /\ h_hist[1][3].acc_count = 2
    /\ h_hist[1][2].acc_sum # 0
    /\ h_hist[1][3].acc_sum # h_hist[1][2].acc_sum

\* C24: at every step of the frontier loop of fit, the sample popped from the
\* priority queue has a variance greater than or equal to the variance of
\* every sample still in the queue.
C24_PopsHighestVariance ==
    [][(pc = "fit" /\ queue' # queue) =>
           /\ popped' # None
           /\ popped'[1] \in queue
           /\ \A other \in queue \ {popped'[1]} :
                 Variance(lambdas, popped'[1].sample)
                     >= Variance(lambdas, other.sample)]_vars

\* a node was popped while a node of strictly lower variance, not one of its
\* children, stayed in the queue
C24_Witness ==
    /\ pc = "fit"
    /\ popped # None
    /\ \E other \in queue :
          /\ nodes[other.index].parent # Some(popped[1].index)
          /\ Variance(lambdas, popped[1].sample) > Variance(lambdas, other.sample)

\* the sequences that hold every element of the sequence sq exactly once
Orders(sq) ==
    {[p \in 1..Len(sq) |-> sq[perm[p]]] :
        perm \in {f \in [1..Len(sq) -> 1..Len(sq)] :
                     \A p, q \in 1..Len(sq) : p # q => f[p] # f[q]}}

\* C25: within update_lambdas_weights, processing one query changes lambda
\* and weight only at the instance indices of that query, and by amounts that
\* do not depend on what the other queries have added, so processing the
\* queries in any order yields the lambda and weight vectors of the dataset
\* order.
C25_QueriesAreIndependent ==
    [][updates' = updates + 1 =>
           LET instances == dataset.instances
               queries == QueryIter(instances, 1)
               zero == <<Zeros(Len(instances)), Zeros(Len(instances))>>
               By(lw, g) == UpdateLambdaWeightByQuery(instances, model_scores, lw,
                                                      queries[g][2], MetricK)
               InQuery(n, g) == \E o \in 1..Len(queries[g][2]) : queries[g][2][o] = n
           IN /\ \A g \in 1..Len(queries) :
                    LET onto == By(<<lambdas, weights>>, g)
                        alone == By(zero, g)
                    IN \A n \in 1..Len(instances) :
                          /\ onto[1][n] = lambdas[n] + alone[1][n]
                          /\ onto[2][n] = weights[n] + alone[2][n]
                          /\ ~InQuery(n, g) => alone[1][n] = 0 /\ alone[2][n] = 0
              /\ \A order \in Orders(queries) :
                    UpdateLambdasWeightsLoop(instances, model_scores,
                                             <<lambdas, weights>>, order, MetricK)
                        = <<lambdas', weights'>>]_vars

\* update_lambdas_weights has run over a data set of two queries that both
\* have a pair of different labels, so both changed lambdas
C25_Witness ==
    LET queries == QueryIter(dataset.instances, 1)
    IN /\ updates >= 1
       /\ Len(queries) >= 2
       /\ \A g \in 1..Len(queries) :
             \E o \in 1..Len(queries[g][2]) : lambdas[queries[g][2][o]] # 0

Pops == Cardinality({n \in 1..Len(nodes) : ~IsFrontier(nodes[n])})

PoppedLambdasEqual ==
    \A p, q \in 1..Len(popped[1].sample) :
        lambdas[popped[1].sample[p]] = lambdas[popped[1].sample[q]]

\* C28: TrainingSample::split returns no split for a sample whose lambda
\* variance is zero, whatever the feature values and min_leaf_count.
C28_ZeroVarianceHasNoSplit ==
    (pc = "fit" /\ popped # None /\ PoppedLambdasEqual) => split_result = None

\* split finds no split for a zero-variance sample whose instances agree on
\* every feature
ZeroVarianceConstantFeaturesHaveNoSplit ==
    (pc = "fit" /\ popped # None /\ PoppedLambdasEqual
        /\ ConstantFids = 1..dataset.nfeatures) => split_result = None

\* the node of the arena that the thresholds of the internal nodes route an
\* instance to, from node n on
RECURSIVE RoutedNode(_, _, _)
RoutedNode(tree_nodes, n, instance) ==
    LET node == tree_nodes[n]
    IN IF ~IsInternal(node) THEN n
       ELSE IF InstanceValue(instance, node.fid[1]) <= node.threshold[1]
       THEN RoutedNode(tree_nodes, node.left[1], instance)
       ELSE RoutedNode(tree_nodes, node.right[1], instance)

\* the instance indices routed to node n, in ascending order
RECURSIVE RoutedFrom(_, _, _)
RoutedFrom(tree_nodes, n, first) ==
    IF first > Len0 THEN <<>>
    ELSE (IF RoutedNode(tree_nodes, 1, dataset.instances[first]) = n
          THEN <<first>> ELSE <<>>) \o RoutedFrom(tree_nodes, n, first + 1)

\* C29: when fit returns (min_leaf_samples >= 1), the index sets of the
\* leaves are pairwise disjoint and cover every training index, and each
\* entry of the leaf-output buffer is written once, with learning_rate times
\* the Newton output of the one leaf that holds the instance. In steps: the
\* sample of every queued node is the vector of the instances that the tree
\* routes to that node; a step that makes a leaf writes learning_rate times
\* the Newton output of its sample to the entries of the sample, which were
\* still 0.0, and to no other entry; and when fit has ended every instance is
\* routed to a leaf and its entry is learning_rate times the Newton output of
\* the instances routed to that leaf.
C29_LeafOutputWrittenOnce ==
    /\ [](pc = "fit" =>
             \A nd \in queue : nd.sample = RoutedFrom(nodes, nd.index, 1))
    /\ [][(pc = "fit" /\ leaves' = leaves + 1) =>
             LET nd == popped'[1]
                 output == FMul(NewtonOutput(lambdas, weights, nd.sample),
                                config.learning_rate)
                 InSample(n) == \E p \in 1..Len(nd.sample) : nd.sample[p] = n
             IN /\ nd.sample = RoutedFrom(nodes', nd.index, 1)
                /\ \A n \in 1..Len0 :
                      IF InSample(n)
                      THEN leaf_output[n] = 0 /\ leaf_output'[n] = output
                      ELSE leaf_output'[n] = leaf_output[n]]_vars
    /\ [](FitEnded =>
             \A n \in 1..Len0 :
                 LET leaf == RoutedNode(nodes, 1, dataset.instances[n])
                 IN /\ IsLeaf(nodes[leaf])
                    /\ leaf_output[n] =
                          FMul(NewtonOutput(lambdas, weights,
                                            RoutedFrom(nodes, leaf, 1)),
                               config.learning_rate))

\* fit has ended with several leaves and two different non-zero outputs in
\* the buffer
C29_Witness ==
    /\ FitEnded
    /\ Cardinality(LeafNodes) >= 2
    /\ \E p, q \in 1..Len(leaf_output) :
          /\ leaf_output[p] # leaf_output[q]
          /\ leaf_output[p] # 0 /\ leaf_output[q] # 0

\* C30: after any number of update_lambdas_weights calls from zeroed vectors,
\* with any model scores, the lambdas of the instances of each query sum to
\* zero (a pair adds to its higher-labelled instance what it subtracts from
\* the lower-labelled one), and a query whose labels are all equal, which has
\* no contributing pair, has zero lambdas and weights.
C30_QueryLambdasSumToZero ==
    LET instances == dataset.instances
        queries == QueryIter(instances, 1)
    IN updates >= 1 =>
        \A g \in 1..Len(queries) :
            LET query == queries[g][2]
            IN /\ SumSeq([o \in 1..Len(query) |-> lambdas[query[o]]]) = 0
               /\ (\A o, r \in 1..Len(query) :
                      instances[query[o]].label = instances[query[r]].label) =>
                      \A o \in 1..Len(query) :
                          lambdas[query[o]] = 0 /\ weights[query[o]] = 0

\* two calls have run over a query of three instances with three different
\* labels, and its lambdas are not zero
C30_Witness ==
    LET instances == dataset.instances
        queries == QueryIter(instances, 1)
    IN /\ updates >= 2
       /\ \E g \in 1..Len(queries) :
             LET query == queries[g][2]
             IN /\ Len(query) >= 3
                /\ \A o, r \in 1..Len(query) :
                      o # r => instances[query[o]].label # instances[query[r]].label
                /\ \A o \in 1..Len(query) : lambdas[query[o]] # 0

====
